---- MODULE Spec2Model ----
(***************************************************************************)
(* The CPU stress-test controller of src/main.py: the three handlers      *)
(* start_cpu_stress, stop_cpu_stress and stress_status, the module-level  *)
(* globals they share, and the worker processes running cpu_worker.       *)
(*                                                                         *)
(* Time is a discrete clock of TicksPerSec ticks per second; time.time()  *)
(* reads the variable now.  The handlers are coroutines without an await, *)
(* so each runs to completion on the event loop; only the blocking        *)
(* p.join(timeout=1) of stop_cpu_stress lets workers and the clock move   *)
(* while a handler is in progress.                                         *)
(***************************************************************************)
EXTENDS Integers, Sequences, FiniteSets, TLC

\* ------------------------------------------------------------------ bounds
TicksPerSec == 2        \* clock resolution: ticks per second
MaxTime     == 3        \* the clock stops advancing here
MaxUnits    == 1        \* single units of work entered per run

\* the processes that can be launched, and the starts that can pass
\* validation (each allocates one Value('i') and one Value('b'))
Pids   == {1, 2}
Values == {1, 2}

\* the inputs of start(duration, load), and what os.cpu_count() may return
\* at a call (0 stands for None)
Durations == {0, 1}
Loads     == {-1, 0, 50, 100, 101}
CpuCounts == {0, 1, 2}

\* ------------------------------------------------------- program constants
None     == 0                 \* a global that was never assigned
IntMax   == 2147483647        \* multiprocessing.Value('i'): a C int
IntMin   == (-IntMax) - 1
CycleNum == 1                 \* cycle_time = 0.1 s = CycleNum / CycleDen
CycleDen == 10
JoinTimeout == 1 * TicksPerSec   \* p.join(timeout=1)
BatchLen == IntMax            \* iterations of the busy loop taken in one batch

VARIABLES
    now,                      \* time.time(), in ticks
    cpu_stress_processes,     \* list of process handles (indices into procs)
    global_iterations,        \* None, or the Value('i') allocated by start
    stop_flag,                \* None, or the Value('b') allocated by start
    cpu_stress_end_time,      \* None, or the deadline in ticks
    cpu_stress_status_data,   \* the status dict
    iterVal,                  \* the heap of Value('i') objects: their .value
    flagVal,                  \* the heap of Value('b') objects: their .value
    procs,                    \* every process ever launched
    worked,                   \* per run (per start that passed validation):
                              \* the work completed by the workers it launched
    stopped,                  \* stop has returned and no start has passed
                              \* validation since
    repeat,                   \* the response held in resp is that of a stop
                              \* made when stopped was already true
    ctl,                      \* the handler in progress on the event loop
    resp                      \* the response of the handler that has just
                              \* returned, until the event loop has sent it

vars == << now, cpu_stress_processes, global_iterations,
           stop_flag, cpu_stress_end_time, cpu_stress_status_data, iterVal,
           flagVal, procs, worked, stopped, repeat, ctl, resp >>

\* the globals of the controller, and what is recorded about its calls
globals == << cpu_stress_processes, global_iterations, stop_flag,
              cpu_stress_end_time, cpu_stress_status_data, stopped, repeat >>

\* everything the workers own or share
workerState == << iterVal, flagVal, procs, worked >>

\* ------------------------------------------------------------ the dict
\* cpu_stress_status_data: keys is "none" for {}, "running" for
\* {"running": ...} and "all" once start has stored the whole dict.
EmptyDict ==
    [keys |-> "none", running |-> FALSE, duration |-> 0, end_time |-> 0,
     load |-> 0, workers |-> 0]

\* cpu_stress_status_data.get("running", False)
GetRunning(d) == IF d.keys = "none" THEN FALSE ELSE d.running

\* cpu_stress_status_data.get("end_time", 0)
GetEndTime(d) == IF d.keys = "all" THEN d.end_time ELSE 0

\* cpu_stress_status_data["running"] = False
SetRunningFalse(d) ==
    [d EXCEPT !.running = FALSE,
              !.keys = IF d.keys = "none" THEN "running" ELSE d.keys]

\* --------------------------------------------------------- the responses
NoResp ==
    [op |-> "none", code |-> 0, duration |-> 0, load |-> 0, workers |-> 0,
     running |-> FALSE, remaining_seconds |-> 0, iterations |-> 0]

ErrorResp(op, code) == [NoResp EXCEPT !.op = op, !.code = code]

\* no response is waiting to be sent
Quiet == resp = NoResp

\* no handler is in progress on the event loop
Idle == [pc |-> "idle", idx |-> 0, t0 |-> 0]

\* ------------------------------------------------------------ arithmetic
Max(a, b) == IF a >= b THEN a ELSE b

\* x + n in a C int, for 0 <= n <= IntMax: ctypes stores the low 32 bits
AddWrap(x, n) ==
    IF x <= 0 THEN x + n
    ELSE IF n > IntMax - x THEN IntMin + (n - (IntMax - x) - 1)
    ELSE x + n

\* int(remaining): the whole seconds in a number of ticks >= 0
IntSeconds(ticks) == ticks \div TicksPerSec

Init ==
    /\ now = 0
    /\ cpu_stress_processes = << >>
    /\ global_iterations = None
    /\ stop_flag = None
    /\ cpu_stress_end_time = None
    /\ cpu_stress_status_data = EmptyDict
    /\ iterVal = << >>
    /\ flagVal = << >>
    /\ procs = << >>
    /\ worked = << >>
    /\ stopped = FALSE
    /\ repeat = FALSE
    /\ ctl = Idle
    /\ resp = NoResp

\* ------------------------------------------------------------ the workers
\* A process running cpu_worker(end_time, load, cycle_time, global_iterations,
\* stop_flag).  global_iterations and stop_flag are the Value objects it was
\* handed, run is the start that launched it; pc is the line it is about to
\* run:
\*   "outer" line 32, "busy" line 35, "work" lines 36-38, "idle" line 39,
\*   "call" line 40 before time.sleep is entered, "sleep" inside time.sleep,
\*   "exited" once the process is gone.
\* A process that is gone keeps only the Value objects it was handed and run.
NewProc(end_time, load, gi, sf, run) ==
    [end_time |-> end_time, load |-> load, global_iterations |-> gi,
     stop_flag |-> sf, run |-> run, pc |-> "outer", start_busy |-> 0,
     sleep_start |-> 0, sigterm |-> FALSE]

Alive(pr) == pr.pc # "exited"

\* the process is gone: cpu_worker has returned, or SIGTERM has killed it
Gone(pr) ==
    [NewProc(0, 0, pr.global_iterations, pr.stop_flag, pr.run)
        EXCEPT !.pc = "exited"]

\* the busy loop entered with <= in place of <
BusyTimeLeft_Inclusive(pr) ==
    (now - pr.start_busy) * CycleDen * 100 <= TicksPerSec * CycleNum * pr.load

\* time.time() - start_busy < busy_time, with busy_time = cycle_time * (load / 100)
BusyTimeLeft(pr) ==
    (now - pr.start_busy) * CycleDen * 100 < TicksPerSec * CycleNum * pr.load

\* idle_time >= 0
IdleTimePositive_Inclusive(pr) == CycleNum * 100 - CycleNum * pr.load >= 0

\* idle_time > 0, with idle_time = cycle_time - busy_time
IdleTimePositive(pr) == CycleNum * 100 - CycleNum * pr.load > 0

\* the last reading of the clock stands for every later time too: a wait
\* that is pending there can end
Horizon == now = MaxTime

\* time.sleep(idle_time) has lasted idle_time
SleepOver(pr) ==
    \/ (now - pr.sleep_start) * CycleDen * 100
          >= TicksPerSec * CycleNum * (100 - pr.load)
    \/ Horizon

\* what a step of a worker leaves alone
WorkerFrame == UNCHANGED << now, globals, flagVal, ctl, resp >>

\* line 32: time.time() < end_time and not stop_flag.value
OuterTest(pr) == now < pr.end_time /\ ~flagVal[pr.stop_flag]

\* line 32: while time.time() < end_time and not stop_flag.value
WorkerOuter(p) ==
    /\ Quiet
    /\ p \in DOMAIN procs
    /\ procs[p].pc = "outer"
    /\ procs' = [procs EXCEPT ![p] =
         IF OuterTest(procs[p])
         THEN [@ EXCEPT !.pc = "busy", !.start_busy = now]
         ELSE Gone(@)]
    /\ UNCHANGED << iterVal, worked >>
    /\ WorkerFrame

\* line 35: while time.time() - start_busy < busy_time and not stop_flag.value
WorkerBusy(p) ==
    /\ Quiet
    /\ p \in DOMAIN procs
    /\ procs[p].pc = "busy"
    /\ IF BusyTimeLeft(procs[p]) /\ ~flagVal[procs[p].stop_flag]
       THEN /\ worked[procs[p].run].units < MaxUnits
            /\ procs' = [procs EXCEPT ![p].pc = "work"]
       ELSE procs' = [procs EXCEPT ![p].pc = "idle", ![p].start_busy = 0]
    /\ UNCHANGED << iterVal, worked >>
    /\ WorkerFrame

\* the worker increments the counter the controller holds now
CounterOf_Global(pr) == global_iterations

\* the Value('i') a worker increments: the one it was handed
CounterOf(pr) == pr.global_iterations

\* lines 36-38: one unit of work, then global_iterations.value += 1 under the
\* lock of the Value
WorkerWork(p) ==
    /\ Quiet
    /\ p \in DOMAIN procs
    /\ procs[p].pc = "work"
    /\ iterVal' = [iterVal EXCEPT ![CounterOf(procs[p])] = AddWrap(@, 1)]
    /\ worked' = [worked EXCEPT ![procs[p].run].units = @ + 1]
    /\ procs' = [procs EXCEPT ![p].pc = "busy"]
    /\ WorkerFrame

\* lines 35-38, BatchLen times over: the worker goes round the busy loop
\* while the clock reading and the stop flag let it, and is back at line 35
\* (taken as the first work of a run only)
WorkerBatch(p) ==
    /\ Quiet
    /\ p \in DOMAIN procs
    /\ procs[p].pc = "busy"
    /\ BusyTimeLeft(procs[p]) /\ ~flagVal[procs[p].stop_flag]
    /\ worked[procs[p].run] = [units |-> 0, batches |-> 0]
    /\ iterVal' = [iterVal EXCEPT ![CounterOf(procs[p])] = AddWrap(@, BatchLen)]
    /\ worked' = [worked EXCEPT ![procs[p].run].batches = @ + 1]
    /\ UNCHANGED procs
    /\ WorkerFrame

\* the test of line 39 without the stop flag
SleepTest_NoFlag(pr) == IdleTimePositive(pr)

\* line 39: idle_time > 0 and not stop_flag.value
SleepTest(pr) == IdleTimePositive(pr) /\ ~flagVal[pr.stop_flag]

\* line 39: if idle_time > 0 and not stop_flag.value
WorkerIdle(p) ==
    /\ Quiet
    /\ p \in DOMAIN procs
    /\ procs[p].pc = "idle"
    /\ procs' = [procs EXCEPT ![p] =
         IF SleepTest(procs[p])
         THEN [@ EXCEPT !.pc = "call"]
         ELSE [@ EXCEPT !.pc = "outer"]]
    /\ UNCHANGED << iterVal, worked >>
    /\ WorkerFrame

\* line 40: time.sleep(idle_time) is entered
WorkerSleepCall(p) ==
    /\ Quiet
    /\ p \in DOMAIN procs
    /\ procs[p].pc = "call"
    /\ procs' = [procs EXCEPT ![p].pc = "sleep", ![p].sleep_start = now]
    /\ UNCHANGED << iterVal, worked >>
    /\ WorkerFrame

\* line 40: time.sleep(idle_time) returns
WorkerSleep(p) ==
    /\ Quiet
    /\ p \in DOMAIN procs
    /\ procs[p].pc = "sleep"
    /\ SleepOver(procs[p])
    /\ procs' = [procs EXCEPT ![p].pc = "outer", ![p].sleep_start = 0]
    /\ UNCHANGED << iterVal, worked >>
    /\ WorkerFrame

\* the SIGTERM sent by p.terminate() (line 89) reaches the process
WorkerKilled(p) ==
    /\ Quiet
    /\ p \in DOMAIN procs
    /\ Alive(procs[p])
    /\ procs[p].sigterm
    /\ procs' = [procs EXCEPT ![p] = Gone(@)]
    /\ UNCHANGED << iterVal, worked >>
    /\ WorkerFrame

\* ------------------------------------------------------------ environment
\* the clock read by time.time() advances; it is taken to start at the first
\* start that passes validation, the first call that compares it to anything
Tick ==
    /\ Quiet
    /\ now < MaxTime
    /\ global_iterations # None
    /\ now' = now + 1
    /\ UNCHANGED << globals, workerState, ctl, resp >>

\* ------------------------------------------------------------ the handlers
\* Each handler takes enabled, the outcome of
\* os.environ.get("STRESS_TEST_FLAG", "").lower() == "true" at the call.

\* the 403 raised after the handles have been dropped
Forbidden_HandlesDropped(op) ==
    /\ resp' = ErrorResp(op, 403)
    /\ cpu_stress_processes' = << >>
    /\ UNCHANGED << now, global_iterations, stop_flag, cpu_stress_end_time,
                    cpu_stress_status_data, stopped, repeat, workerState,
                    ctl >>

\* raise HTTPException(status_code=403): nothing but the response changes
Forbidden(op) ==
    /\ resp' = ErrorResp(op, 403)
    /\ UNCHANGED << now, globals, workerState, ctl >>

\* ValidParams without the test of load
ValidParams_NoLoadTest(duration, load) == ~(duration <= 0)

\* line 83: not (duration <= 0 or not (0 <= load <= 100))
ValidParams(duration, load) == ~(duration <= 0 \/ ~(0 <= load /\ load <= 100))

\* workers = os.cpu_count(), without the "or 1"
WorkerCount_Raw(n) == n

\* line 98: workers = os.cpu_count() or 1
WorkerCount(n) == IF n = None THEN 1 ELSE n

\* no signal is sent
Terminate_Nothing(ps, handles) == ps

\* lines 87-89: p.terminate() for every handle: SIGTERM is sent to a process
\* that has not exited, and the call does not wait for it to die
Terminate(ps, handles) ==
    [i \in DOMAIN ps |->
        IF (\E j \in DOMAIN handles : handles[j] = i) /\ Alive(ps[i])
        THEN [ps[i] EXCEPT !.sigterm = TRUE]
        ELSE ps[i]]

\* lines 112-116 for the first k workers: processes Len(ps)+1 .. Len(ps)+k
Launched(ps, k, end_time, load, gi, sf, run) ==
    ps \o [i \in 1..k |-> NewProc(end_time, load, gi, sf, run)]

\* the handles appended at line 116
Handles(first, k) == [i \in 1..k |-> first + i]

\* lines 86-123 with the launch of worker k+1 failing (p.start() raises) when
\* k < workers, and every launch succeeding when k = workers
StartRun(duration, load, workers, k) ==
    LET
        gi       == Len(iterVal) + 1
        sf       == Len(flagVal) + 1
        end_time == now + duration * TicksPerSec
        run      == Len(worked) + 1
        retired  == Terminate(procs, cpu_stress_processes)
    IN  /\ iterVal' = Append(iterVal, 0)
        /\ worked' = Append(worked, [units |-> 0, batches |-> 0])
        /\ flagVal' = Append(flagVal, FALSE)
        /\ global_iterations' = gi
        /\ stop_flag' = sf
        /\ cpu_stress_end_time' = end_time
        /\ cpu_stress_status_data' =
              [keys |-> "all", running |-> TRUE, duration |-> duration,
               end_time |-> end_time, load |-> load, workers |-> workers]
        /\ procs' = Launched(retired, k, end_time, load, gi, sf, run)
        /\ cpu_stress_processes' = Handles(Len(procs), k)
        /\ resp' = IF k = workers
                   THEN [NoResp EXCEPT !.op = "start", !.code = 200,
                            !.duration = duration, !.load = load,
                            !.workers = workers]
                   ELSE ErrorResp("start", 500)
        /\ stopped' = FALSE
        /\ UNCHANGED << now, repeat, ctl >>

\* start_cpu_stress(duration, load), with os.cpu_count() returning cpu_count
Start(duration, load, enabled, cpu_count) ==
    /\ Quiet /\ ctl.pc = "idle"
    /\ IF ~enabled THEN Forbidden("start")
       ELSE IF ~ValidParams(duration, load)
       THEN /\ resp' = ErrorResp("start", 400)
            /\ UNCHANGED << now, globals, workerState, ctl >>
       ELSE /\ now + duration * TicksPerSec <= MaxTime
            /\ Len(worked) + 1 \in Values
            /\ Len(procs) + WorkerCount(cpu_count) \in Pids
            /\ \E k \in 0..WorkerCount(cpu_count) :
                  StartRun(duration, load, WorkerCount(cpu_count), k)

\* stop() that raises an error when there is nothing to stop
StopFinish_ErrorWhenIdle ==
    IF cpu_stress_processes = << >> /\ ~GetRunning(cpu_stress_status_data)
    THEN /\ resp' = ErrorResp("stop", 409)
         /\ UNCHANGED << cpu_stress_status_data, cpu_stress_processes,
                         stopped, repeat >>
         /\ ctl' = Idle
    ELSE /\ cpu_stress_status_data' = SetRunningFalse(cpu_stress_status_data)
         /\ cpu_stress_processes' = << >>
         /\ resp' = ErrorResp("stop", 200)
         /\ stopped' = TRUE
         /\ repeat' = stopped
         /\ ctl' = Idle

\* lines 140-142: the end of stop_cpu_stress
StopFinish ==
    /\ cpu_stress_status_data' = SetRunningFalse(cpu_stress_status_data)
    /\ cpu_stress_processes' = << >>
    /\ resp' = ErrorResp("stop", 200)
    /\ stopped' = TRUE
    /\ repeat' = stopped
    /\ ctl' = Idle

\* stop_cpu_stress up to its first p.join: lines 132-138, and lines 140-142
\* too when there is no handle to join
StopBegin(enabled) ==
    /\ Quiet /\ ctl.pc = "idle"
    /\ IF ~enabled THEN Forbidden("stop")
       ELSE /\ flagVal' = IF stop_flag # None
                          THEN [flagVal EXCEPT ![stop_flag] = TRUE]
                          ELSE flagVal
            /\ IF cpu_stress_processes = << >>
               THEN StopFinish
               ELSE /\ ctl' = [pc |-> "join", idx |-> 1, t0 |-> now]
                    /\ UNCHANGED << cpu_stress_status_data,
                                    cpu_stress_processes, stopped, repeat,
                                    resp >>
            /\ UNCHANGED << now, global_iterations, stop_flag,
                            cpu_stress_end_time, iterVal, procs, worked >>

\* p.join() without a timeout
JoinReturns_NoTimeout == ~Alive(procs[cpu_stress_processes[ctl.idx]])

\* line 139: what ends p.join(timeout=1) for the handle at ctl.idx
JoinReturns ==
    \/ ~Alive(procs[cpu_stress_processes[ctl.idx]])
    \/ now - ctl.t0 >= JoinTimeout
    \/ Horizon

\* line 139: p.join(timeout=1) returns, because the process is gone or because
\* the timeout has passed; after the last handle, lines 140-142
StopJoin ==
    /\ Quiet /\ ctl.pc = "join"
    /\ JoinReturns
    /\ IF ctl.idx = Len(cpu_stress_processes)
       THEN StopFinish
       ELSE /\ ctl' = [ctl EXCEPT !.idx = @ + 1, !.t0 = now]
            /\ UNCHANGED << cpu_stress_status_data, cpu_stress_processes,
                            stopped, repeat, resp >>
    /\ UNCHANGED << now, global_iterations, stop_flag,
                    cpu_stress_end_time, workerState >>

\* Remaining without the test of running
Remaining_NoRunningTest(d) == Max(0, GetEndTime(d) - now)

\* lines 156-159: remaining
Remaining(d) == IF GetRunning(d) THEN Max(0, d.end_time - now) ELSE 0

\* iterations read from the counter of the first run
Iterations_FirstRun == IF global_iterations # None THEN iterVal[1] ELSE 0

\* line 160: iterations
Iterations == IF global_iterations # None THEN iterVal[global_iterations] ELSE 0

\* a status() that stores the outcome of the deadline test either way
AfterDeadlineTest_Refresh(d) ==
    IF now >= GetEndTime(d) THEN SetRunningFalse(d)
    ELSE [d EXCEPT !.running = TRUE]

\* lines 161-162: the dict after the deadline test
AfterDeadlineTest(d) == IF now >= GetEndTime(d) THEN SetRunningFalse(d) ELSE d

\* lines 163-167: the snapshot returned for the dict d
Snapshot(d) ==
    [NoResp EXCEPT !.op = "status", !.code = 200,
                   !.running = GetRunning(AfterDeadlineTest(d)),
                   !.remaining_seconds = IntSeconds(Remaining(d)),
                   !.iterations = Iterations]

\* stress_status()
Status(enabled) ==
    /\ Quiet /\ ctl.pc = "idle"
    /\ IF ~enabled THEN Forbidden("status")
       ELSE /\ cpu_stress_status_data' = AfterDeadlineTest(cpu_stress_status_data)
            /\ resp' = Snapshot(cpu_stress_status_data)
            /\ UNCHANGED << now, cpu_stress_processes,
                            global_iterations, stop_flag, cpu_stress_end_time,
                            workerState, stopped, repeat, ctl >>

\* the event loop sends the response of the handler that has returned; it
\* does so before it runs anything else, and the step touches nothing that a
\* worker or the clock reads, so no other step is taken in between
Respond ==
    /\ resp # NoResp
    /\ resp' = NoResp
    /\ repeat' = FALSE
    /\ UNCHANGED << now, cpu_stress_processes, global_iterations, stop_flag,
                    cpu_stress_end_time, cpu_stress_status_data, stopped,
                    workerState, ctl >>

Next ==
    \/ \E duration \in Durations, load \in Loads :
          \* os.cpu_count() is called only once validation has passed
          \E cpu_count \in IF ValidParams(duration, load) THEN CpuCounts
                            ELSE {None} :
             Start(duration, load, TRUE, cpu_count)
    \/ \E duration \in {1}, load \in {100}, cpu_count \in {None} :
          \* with the feature disabled the parameters are not looked at
          Start(duration, load, FALSE, cpu_count)
    \/ \E enabled \in BOOLEAN : StopBegin(enabled)
    \/ StopJoin
    \/ \E enabled \in BOOLEAN : Status(enabled)
    \/ \E p \in Pids : WorkerOuter(p)
    \/ \E p \in Pids : WorkerBusy(p)
    \/ \E p \in Pids : WorkerWork(p)
    \/ \E p \in Pids : WorkerBatch(p)
    \/ \E p \in Pids : WorkerIdle(p)
    \/ \E p \in Pids : WorkerSleepCall(p)
    \/ \E p \in Pids : WorkerSleep(p)
    \/ \E p \in Pids : WorkerKilled(p)
    \/ Tick
    \/ Respond

Spec == Init /\ [][Next]_vars

\* a step of the process p, whichever line it is at
WorkerMove(p) ==
    \/ WorkerOuter(p) \/ WorkerBusy(p) \/ WorkerWork(p)
    \/ WorkerIdle(p) \/ WorkerSleepCall(p) \/ WorkerSleep(p)
    \/ WorkerKilled(p)

\* The steps that bear on when a call returns and when a worker exits: the
\* calls that are rejected (403, 400) change nothing but the response, and
\* the value of a counter decides no test of a worker or of a handler, so
\* that both, and the batches of WorkerBatch, are left out.
LiveNext ==
    \/ \E duration \in Durations, load \in Loads, cpu_count \in CpuCounts :
          ValidParams(duration, load) /\ Start(duration, load, TRUE, cpu_count)
    \/ StopBegin(TRUE)
    \/ StopJoin
    \/ Status(TRUE)
    \/ \E p \in Pids : WorkerOuter(p)
    \/ \E p \in Pids : WorkerBusy(p)
    \/ \E p \in Pids : WorkerWork(p)
    \/ \E p \in Pids : WorkerIdle(p)
    \/ \E p \in Pids : WorkerSleepCall(p)
    \/ \E p \in Pids : WorkerSleep(p)
    \/ \E p \in Pids : WorkerKilled(p)
    \/ Tick
    \/ Respond

\* The controller with a clock that advances and a join that returns, and
\* nothing assumed about the workers: they may stall for ever.
StopSpec == Init /\ [][LiveNext]_vars /\ WF_vars(Tick) /\ WF_vars(StopJoin)

\* The controller with a clock that advances, an event loop that sends its
\* responses, and an operating system that schedules every process: a
\* worker is a process of its own, so that it is scheduled again and again
\* whatever the server does in between.
LiveSpec ==
    /\ Init /\ [][LiveNext]_vars
    /\ SF_vars(Tick) /\ WF_vars(Respond)
    /\ \A p \in Pids : SF_vars(WorkerMove(p))

\* ------------------------------------------------------------- the claims
Running == GetRunning(cpu_stress_status_data)

\* the run of the controller is active: running, with the deadline ahead
Active == Running /\ now < cpu_stress_status_data.end_time

\* the handles as a set
HandleSet == {cpu_stress_processes[i] : i \in DOMAIN cpu_stress_processes}

\* C1: a call start(duration, load) with duration <= 0 or load outside 0..100
\* that reaches the controller fails with HTTP 400 (invalid parameter),
\* launches no worker and leaves the counter, the stop flag, the end time,
\* the running flag, the handle set and every worker as they were, in every
\* state of the controller.
\* (Stated step by step: a step that is not such a rejection is not the step
\* of a call with invalid parameters.)
C1_InvalidStartChangesNothing ==
    [][~(/\ resp' = ErrorResp("start", 400)
         /\ UNCHANGED << now, globals, workerState, ctl >>)
       => ~\E duration \in Durations, load \in Loads, cpu_count \in CpuCounts :
              /\ duration <= 0 \/ load < 0 \/ load > 100
              /\ Start(duration, load, TRUE, cpu_count)]_vars

\* an invalid start has been rejected while a run was active with a live
\* worker, and the run is still active
C1_Witness ==
    /\ resp = ErrorResp("start", 400)
    /\ Active
    /\ \E p \in HandleSet : Alive(procs[p])

\* what status() returns in a step of Status, case by case, with the
\* remaining time given by rem(ticks left)
StatusCases(rem(_)) ==
    LET d == cpu_stress_status_data
    IN  /\ resp'.op = "status" /\ resp'.code = 200
        /\ IF ~GetRunning(d)
           THEN ~resp'.running /\ resp'.remaining_seconds = 0
           ELSE IF now < d.end_time
           THEN resp'.running /\ rem(d.end_time - now)
           ELSE /\ ~resp'.running /\ resp'.remaining_seconds = 0
                /\ ~GetRunning(cpu_stress_status_data')
        /\ ~(~resp'.running /\ resp'.remaining_seconds > 0)

\* remainingSeconds is exactly the time left
ExactRemaining(ticks) == resp'.remaining_seconds * TicksPerSec = ticks

\* remainingSeconds is the whole seconds of the time left
WholeSecondsRemaining(ticks) == resp'.remaining_seconds = ticks \div TicksPerSec

\* C2 as stated: status() returns running=false, remainingSeconds=0 when
\* running is false; running=true, remainingSeconds = endTime - now when
\* running and now < endTime; running=false, remainingSeconds=0 and a stored
\* flag of false when running and now >= endTime; and never running=false
\* with remainingSeconds > 0.
C2_StatusExactRemaining ==
    [][Status(TRUE) => StatusCases(ExactRemaining)]_vars

\* C2, amended: the same, with remainingSeconds the whole seconds of
\* endTime - now (int() drops the fraction), so that it is 0 in the last
\* fraction of a second of a run that is still reported running.
C2_StatusWholeSeconds ==
    [][Status(TRUE) => StatusCases(WholeSecondsRemaining)]_vars

\* status() has reported a running run whose time left is no whole number of
\* seconds
C2_Witness ==
    /\ resp.op = "status" /\ resp.code = 200 /\ resp.running
    /\ (cpu_stress_status_data.end_time - now) % TicksPerSec # 0

\* C3 as stated: once stop() has returned, and until the next successful
\* start, the running flag is false and the handle set is empty, and every
\* status() reports running=false and remainingSeconds=0.
\* (Stated step by step: from a state in which stop has returned and no start
\* has passed validation since, every step but a successful start leaves the
\* flag false and the handle set empty, and a status() reports just that.)
C3_StoppedUntilNextStart ==
    [][(stopped /\ ~(resp'.op = "start" /\ resp'.code = 200))
       => /\ ~GetRunning(cpu_stress_status_data')
          /\ cpu_stress_processes' = << >>
          /\ Status(TRUE) => ~resp'.running /\ resp'.remaining_seconds = 0]_vars

\* C4: stop() succeeds in every state, and a stop() made after a stop() has
\* returned, with no start in between, succeeds too and leaves the whole
\* state of the controller and of the workers as the first left it: the
\* running flag false, nothing remaining.
C4_StopIdempotent ==
    [][/\ (StopBegin(TRUE) \/ StopJoin)
             => resp' \in {NoResp, ErrorResp("stop", 200)}
       /\ (stopped /\ StopBegin(TRUE))
             => /\ resp' = ErrorResp("stop", 200)
                /\ UNCHANGED << now, cpu_stress_processes, global_iterations,
                                stop_flag, cpu_stress_end_time,
                                cpu_stress_status_data, stopped,
                                workerState, ctl >>
                /\ ~GetRunning(cpu_stress_status_data')
                /\ IntSeconds(Remaining(cpu_stress_status_data')) = 0]_vars

\* a second stop() in a row has returned, after a first one that stopped a
\* run which had been started
C4_Witness ==
    /\ repeat /\ resp = ErrorResp("stop", 200)
    /\ cpu_stress_status_data.keys = "all"

\* the run that the controller's counter belongs to
CurrentRun == Len(worked)

\* C5: a successful start allocates a counter that no earlier run has used,
\* equal to 0, and a stop flag likewise; afterwards the iterations that
\* status() reads change only by a unit of work of a worker of the current
\* run, and a unit of work of a worker of an earlier run leaves them as they
\* are; a worker reads the stop flag of its own run only.
C5_RunsKeepTheirCounters ==
    [][/\ (resp'.op = "start" /\ resp'.code = 200 /\ Quiet)
             => /\ global_iterations' \notin DOMAIN iterVal
                /\ stop_flag' \notin DOMAIN flagVal
                /\ iterVal'[global_iterations'] = 0
                /\ \A v \in DOMAIN iterVal : iterVal'[v] = iterVal[v]
       /\ (global_iterations' = global_iterations /\ Iterations' # Iterations)
             => worked'[CurrentRun] # worked[CurrentRun]
       /\ \A r \in DOMAIN worked :
             (r # CurrentRun /\ Len(worked') = Len(worked)
                  /\ worked'[r] # worked[r])
             => Iterations' = Iterations
       /\ \A p \in DOMAIN procs :
             /\ procs[p].global_iterations = procs[p].run
             /\ procs[p].stop_flag = procs[p].run]_vars

\* a worker of a superseded run is about to add a unit of work, while the run
\* that superseded it is active
C5_Witness ==
    /\ Active
    /\ \E p \in DOMAIN procs :
          /\ procs[p].pc = "work"
          /\ procs[p].run < CurrentRun
          /\ CounterOf(procs[p]) # global_iterations

\* a step of a start that has passed validation: a run is added
NewRun == Len(worked') > Len(worked)

\* C6 as stated: when start is called while a run is active, the stop of the
\* old run is requested and none of its workers is still executing when the
\* workers of the new run are launched.
C6_OldRunRetiredFirst ==
    [][(Active /\ NewRun)
       => /\ flagVal'[stop_flag]
          /\ \A p \in DOMAIN procs : ~Alive(procs'[p])]_vars

\* every process that is alive and that the controller holds no handle of
\* has a termination signal pending or has been asked to stop
Orphans ==
    \A p \in DOMAIN procs :
       (Alive(procs[p]) /\ p \notin HandleSet)
       => procs[p].sigterm \/ flagVal[procs[p].stop_flag]

\* C6, amended: a start that supersedes a run sends a termination signal to
\* every worker of the old run that has not exited, and neither requests the
\* stop of the old run through its stop flag nor waits for a worker; the
\* handle set then holds the new workers only.  A worker of the old run may
\* therefore be executing when the new workers are launched, with the signal
\* pending.
C6_OldRunSignalledOnly ==
    [][NewRun
       => /\ \A p \in DOMAIN procs :
                procs'[p] = IF p \in HandleSet /\ Alive(procs[p])
                            THEN [procs[p] EXCEPT !.sigterm = TRUE]
                            ELSE procs[p]
          /\ \A v \in DOMAIN flagVal : flagVal'[v] = flagVal[v]
          /\ HandleSet' \cap DOMAIN procs = {}
          /\ Orphans']_vars

\* a start has just superseded a run: a worker of the old run is alive with
\* the signal pending, next to a worker of the new run
C6_Witness ==
    /\ resp.op = "start" /\ resp.code = 200
    /\ \E p \in DOMAIN procs :
          /\ Alive(procs[p]) /\ procs[p].sigterm
          /\ procs[p].run < CurrentRun
          /\ ~flagVal[procs[p].stop_flag]
    /\ \E q \in HandleSet : Alive(procs[q])

\* C7 as stated: of two status() calls during the same active run, the later
\* reports iterations no smaller and remainingSeconds no greater.
\* (Stated step by step, for what status() reads: in a step within an active
\* run the iterations do not decrease and the remaining seconds do not
\* increase.)
C7_StatusMonotone ==
    [][(Active /\ Active' /\ global_iterations' = global_iterations)
       => /\ Iterations' >= Iterations
          /\ IntSeconds(Remaining(cpu_stress_status_data))'
                <= IntSeconds(Remaining(cpu_stress_status_data))]_vars

\* C8 as stated: the iterations returned by status() are never negative.
C8_IterationsNeverNegative ==
    (resp.op = "status" /\ resp.code = 200) => resp.iterations >= 0

\* C9 as stated: when the launch of a worker fails during start, the caller
\* gets the failure and the controller does not report the run as running.
C9_FailedStartNotRunning ==
    resp = ErrorResp("start", 500) => ~Running

\* C10: a successful start(duration, load) sets running, a new counter of 0,
\* a new stop flag of false and endTime = now + duration; it launches exactly
\* workerCount = max(1, os.cpu_count()) workers, all bound to the new counter
\* and flag; the handle set holds these workers and no other; the response
\* echoes duration, load and workerCount.
C10_SuccessfulStart ==
    [][(Quiet /\ resp'.op = "start" /\ resp'.code = 200)
       => /\ cpu_stress_status_data'.keys = "all"
          /\ GetRunning(cpu_stress_status_data')
          /\ global_iterations' \notin DOMAIN iterVal
          /\ iterVal'[global_iterations'] = 0
          /\ stop_flag' \notin DOMAIN flagVal
          /\ flagVal'[stop_flag'] = FALSE
          /\ cpu_stress_end_time' = now + resp'.duration * TicksPerSec
          /\ cpu_stress_status_data'.end_time = cpu_stress_end_time'
          /\ cpu_stress_status_data'.workers = resp'.workers
          /\ Len(cpu_stress_processes') = resp'.workers
          /\ Cardinality(HandleSet') = resp'.workers
          /\ HandleSet' = DOMAIN procs' \ DOMAIN procs
          /\ \A p \in HandleSet' :
                /\ Alive(procs'[p])
                /\ procs'[p].global_iterations = global_iterations'
                /\ procs'[p].stop_flag = stop_flag'
                /\ procs'[p].end_time = cpu_stress_end_time'
                /\ procs'[p].load = resp'.load
          /\ \A duration \in Durations, load \in Loads, cpu_count \in CpuCounts :
                Start(duration, load, TRUE, cpu_count)
                => /\ resp'.duration = duration
                   /\ resp'.load = load
                   /\ resp'.workers = Max(1, cpu_count)]_vars

\* a successful start has returned on a controller that had launched workers
\* before
C10_Witness ==
    /\ resp.op = "start" /\ resp.code = 200
    /\ Len(procs) > Len(cpu_stress_processes)

\* the run the controller holds was started with this load
CurrentLoad(load) ==
    /\ cpu_stress_status_data.keys = "all"
    /\ cpu_stress_status_data.load = load

\* C11: in a run started with load = 0 no worker increments the counter: the
\* counter of the run is 0 and every status() during and after the run
\* reports iterations = 0, and no worker of the run is ever at the unit of
\* work.
C11_ZeroLoadNeverCounts ==
    CurrentLoad(0)
    => /\ Iterations = 0
       /\ worked[CurrentRun] = [units |-> 0, batches |-> 0]
       /\ resp.op = "status" => resp.iterations = 0
       /\ \A p \in DOMAIN procs :
             procs[p].run = CurrentRun => procs[p].pc # "work"

\* status() has answered during a run of load 0 one of whose workers has
\* been through the busy loop and is asleep
C11_Witness ==
    /\ CurrentLoad(0) /\ Active
    /\ resp.op = "status" /\ resp.code = 200 /\ resp.running
    /\ \E p \in HandleSet : procs[p].pc = "sleep"

\* C12: stop() always returns, with success: the join of a handle ends when
\* the process is gone or the timeout has passed, whatever the worker does,
\* and the call answers 200 once the last join has ended; no step of stop()
\* answers anything else.
C12_StopReturns ==
    /\ [][(StopBegin(TRUE) \/ StopJoin)
             => \/ resp' = ErrorResp("stop", 200) /\ ctl' = Idle
                \/ resp' = NoResp /\ ctl'.pc = "join"]_vars
    /\ (ctl.pc = "join") ~> (ctl.pc = "idle" /\ resp = ErrorResp("stop", 200))

\* stop() has returned after a join that timed out: the worker it waited for
\* is still alive
C12_Witness ==
    /\ resp = ErrorResp("stop", 200)
    /\ \E p \in DOMAIN procs :
          /\ Alive(procs[p]) /\ ~procs[p].sigterm
          /\ procs[p].run = CurrentRun

\* the stop flag of the run of process p is set
StopSeen(p) == flagVal[procs[p].stop_flag]

\* process p has been launched
IsLaunched(p) == p \in DOMAIN procs

\* process p has exited
Exited(p) == p \in DOMAIN procs /\ ~Alive(procs[p])

\* every worker that is launched exits: its deadline passes, if its stop flag
\* is not set before
WorkersExit == \A p \in Pids : IsLaunched(p) ~> Exited(p)

\* once the stop flag is set no worker passes the test of the busy loop, and a
\* worker at its unit of work adds exactly one to its counter and is back at
\* the test
OneMoreUnit ==
    \A p \in DOMAIN procs :
       StopSeen(p)
       => /\ procs[p].pc # "work" => procs'[p].pc # "work"
          /\ iterVal'[CounterOf(procs[p])] # iterVal[CounterOf(procs[p])]
                => \E q \in DOMAIN procs :
                      /\ procs[q].pc = "work" /\ procs'[q].pc = "busy"
                      /\ iterVal'[CounterOf(procs[q])]
                            = AddWrap(iterVal[CounterOf(procs[q])], 1)

\* C16 as stated: every worker exits once its deadline has passed or its stop
\* flag is set; after the flag is set a worker completes at most one further
\* unit of work, and enters no idle sleep.
C16_NoSleepAfterStop ==
    /\ WorkersExit
    /\ [][/\ OneMoreUnit
          /\ \A p \in DOMAIN procs :
                (StopSeen(p) /\ procs[p].pc # "sleep")
                => procs'[p].pc # "sleep"]_vars

\* C16, amended: the same, except that a worker which has passed the test of
\* line 39 before the flag was set still enters the sleep of line 40 after
\* it: once the flag is set no worker passes that test, so that a worker
\* enters at most one further sleep, of idle_time, and exits after it.
C16_OneSleepAfterStop ==
    /\ WorkersExit
    /\ [][/\ OneMoreUnit
          /\ \A p \in DOMAIN procs :
                (StopSeen(p) /\ procs[p].pc # "call")
                => procs'[p].pc # "call"]_vars

\* a worker has passed the test of line 39 and the stop flag of its run has
\* been set since, before its deadline: it is about to enter the sleep
C16_Witness ==
    \E p \in DOMAIN procs :
       /\ procs[p].pc = "call" /\ StopSeen(p)
       /\ now < procs[p].end_time /\ ~procs[p].sigterm

\* no start has passed validation yet
NeverStarted == global_iterations = None

\* the snapshot running=false, remainingSeconds=0, iterations=0
ZeroSnapshot == [NoResp EXCEPT !.op = "status", !.code = 200]

\* C13: on a controller on which no run was ever started status() answers the
\* zero snapshot and stop() answers 200, and neither changes the running
\* flag (false), the counter, the stop flag, the end time or the handle set;
\* once a run has been started, status() returns the current value of the
\* counter of the run started last, whether that run is active, completed or
\* stopped.
C13_NoRunNoError ==
    [][/\ (NeverStarted /\ (Status(TRUE) \/ StopBegin(TRUE)))
             => /\ resp' \in {ZeroSnapshot, ErrorResp("stop", 200)}
                /\ resp'.op = "status" <=> Status(TRUE)
                /\ ~Running /\ ~GetRunning(cpu_stress_status_data')
                /\ UNCHANGED << now, cpu_stress_processes, global_iterations,
                                stop_flag, cpu_stress_end_time, workerState,
                                ctl >>
       /\ (~NeverStarted /\ Status(TRUE))
             => /\ resp'.op = "status" /\ resp'.code = 200
                /\ resp'.iterations = iterVal[CurrentRun]]_vars

\* status() has answered on a controller that was stopped and never started
C13_Witness ==
    /\ NeverStarted /\ stopped
    /\ resp = ZeroSnapshot

\* C14: with the feature flag off, start (whatever its parameters), stop and
\* status each answer 403 and change nothing else: no worker is launched or
\* signalled, and the counter, the stop flag, the end time, the running flag
\* and the handle set stay as they are, so that an active run goes on.
\* (Stated step by step: a step that is not such a rejection is not the step
\* of a call made with the flag off.)
C14_GateRejectsUntouched ==
    [][~(/\ resp' \in {ErrorResp("start", 403), ErrorResp("stop", 403),
                      ErrorResp("status", 403)}
         /\ UNCHANGED << now, globals, workerState, ctl >>)
       => ~(\/ \E duration \in Durations, load \in Loads,
                  cpu_count \in CpuCounts :
                  Start(duration, load, FALSE, cpu_count)
            \/ StopBegin(FALSE)
            \/ Status(FALSE))]_vars

\* stop() has been rejected with the flag off while a run was active with a
\* live worker, past none of its flags: the run is still active
C14_Witness ==
    /\ resp = ErrorResp("stop", 403)
    /\ Active /\ ~flagVal[stop_flag]
    /\ \E p \in HandleSet : Alive(procs[p])

\* C15 as stated: at every moment the counter of a run equals the number of
\* units of work completed so far by the workers of that run.
C15_CounterCountsUnits ==
    \A r \in DOMAIN worked :
       /\ iterVal[r] >= 0
       /\ iterVal[r] - worked[r].units = worked[r].batches * BatchLen

\* C17 as stated: the running flag goes from false to true only in a
\* successful start, and from true to false only in a status() that finds
\* now >= endTime or in a stop(); the passing of the deadline alone leaves it
\* true; a successful start from a completed or stopped run sets it, with a
\* new counter and a new stop flag.
C17_RunningStateMachine ==
    [][/\ (~Running /\ Running')
             => resp'.op = "start" /\ resp'.code = 200
       /\ (Running /\ ~Running')
             => \/ /\ Status(TRUE)
                   /\ now >= cpu_stress_status_data.end_time
                \/ resp' = ErrorResp("stop", 200)
       /\ (now' # now) => (Running' <=> Running)
       /\ (~Running /\ resp'.op = "start" /\ resp'.code = 200)
             => /\ Running'
                /\ global_iterations' \notin DOMAIN iterVal
                /\ stop_flag' \notin DOMAIN flagVal]_vars

\* C18 as stated: whenever no control operation is in progress, running=true
\* implies that the stop flag of the current run is false and that the
\* handle set holds exactly workerCount handles, all of the current run.
C18_RunningMeansWholeRun ==
    (ctl.pc = "idle" /\ Quiet /\ Running)
    => /\ ~flagVal[stop_flag]
       /\ Len(cpu_stress_processes) = cpu_stress_status_data.workers
       /\ Cardinality(HandleSet) = cpu_stress_status_data.workers
       /\ \A p \in HandleSet : procs[p].run = CurrentRun

\* C19: status() changes nothing but, possibly, the running flag from true
\* to false: the counter, the stop flag, the end time, the handle set, the
\* clock and every worker stay as they are, no join is begun, and the flag
\* never goes to true.
C19_StatusOnlyClearsRunning ==
    [][Status(TRUE)
       => /\ UNCHANGED << now, cpu_stress_processes, global_iterations,
                          stop_flag, cpu_stress_end_time, workerState, ctl >>
          /\ cpu_stress_status_data' \in
                {cpu_stress_status_data,
                 SetRunningFalse(cpu_stress_status_data)}
          /\ GetRunning(cpu_stress_status_data') => Running]_vars

\* status() has answered running=false after the deadline of a run that was
\* never stopped and whose worker is still alive
C19_Witness ==
    /\ resp.op = "status" /\ resp.code = 200 /\ ~resp.running
    /\ cpu_stress_status_data.keys = "all" /\ ~stopped
    /\ ~flagVal[stop_flag]
    /\ \E p \in HandleSet : Alive(procs[p])

\* C20: a worker of a run started with load = 100 is never about to enter the
\* idle sleep nor asleep.
C20_FullLoadNeverSleeps ==
    \A p \in DOMAIN procs :
       procs[p].load = 100 => procs[p].pc \notin {"call", "sleep"}

\* the one worker of a run of load 100 has done a unit of work, has been
\* through the test of line 39 and is back at the outer loop
C20_Witness ==
    /\ Len(cpu_stress_processes) = 1
    /\ \E p \in HandleSet :
          /\ procs[p].load = 100 /\ procs[p].pc = "outer"
          /\ worked[procs[p].run].units > 0
====
